---- MODULE Spec2Model ----
(***************************************************************************)
(* A model of the Luban relay of the Snapmaker dashboard                   *)
(* (server/lubanProxy.ts), of the storage layer it writes to               *)
(* (DbStorage) and of the routes that configure it (server/routes.ts).     *)
(*                                                                         *)
(* Granularity.  The server is a single Node.js event loop: code between   *)
(* two awaits runs without interruption.  Every action below is one such   *)
(* run: it starts when the awaited storage call (or network event)         *)
(* completes, performs that call's effect on the database, and continues   *)
(* to the next await of the handler.                                       *)
(***************************************************************************)
EXTENDS Integers, Sequences, FiniteSets, TLC

\* ------------------------------------------------------------------ bounds
MaxReq == 2          \* relay requests in flight together (concurrency specs)
MaxFull == 1         \* relay requests of the full request space (Spec)
MaxPrinters == 2     \* rows of the printers table
MaxCalls == 2        \* calls of the dashboard's routes in one behaviour
MaxLen == 3          \* characters of a file content handed to the parser

\* --------------------------------------------------------------- constants
GatewayError == 502
GatewayTimeout == 504
NoTarget == 503

NoTok == "null"                    \* null / absent token
IPs == {"ipA", "ipB"}              \* printer addresses
NoIp == "null"
Tokens == {"T1", "T2"}             \* token strings
\* raw (percent-encoded) token values as they travel in a URL or a form
\* body: plain, an escaped spelling of T1, and a malformed escape
RawTokens == {"T1", "T%31", "T2", "%"}
Filenames == {"a.gcode", "b.gcode"}
NoFile == "null"
Folders == {"dirA", "dirB"}
NoDir == "null"
ReqIds == 1 .. (IF MaxReq > MaxFull THEN MaxReq ELSE MaxFull)
PrinterIds == 1 .. MaxPrinters
CallIds == 1 .. MaxCalls

VARIABLES
  printers,           \* printers table: id -> row, or NoRow
  uploadedFiles,      \* uploaded_files table: sequence of rows (index = id)
  setting,            \* app_settings row "luban_proxy_printer_ip"
  proxyServer,        \* module variable proxyServer: 0 (null) or a server id
  targetPrinterIp,    \* module variable targetPrinterIp
  isEnabled,          \* module variable isEnabled
  lastCapturedToken,  \* module variable lastCapturedToken
  servers,            \* every http.Server created: id -> state
  waiters,            \* calls whose close callback is registered, in order
  portTaken,          \* another process holds port 8080
  captureLog,         \* "Captured Luban token" log lines, in order
  tokenWrites,        \* updatePrinter calls issued by the relay, in order
  req,                \* per request: the inbound request, or NoReq
  pc,                 \* per request: the await its handler is suspended at
  loc,                \* per request: the printer id picked by the handler
  fwd,                \* per request: the messages sent to the printer
  up,                 \* per request: the response the printer returned
  out,                \* per request: what was written to the caller
  conn,               \* per request: the server that accepted its connection,
                      \* negated once the connection has ended
  calls,              \* per call of a dashboard route: its progress
  crashed,            \* the process died of an uncaught exception
  prefs,              \* dashboard_preferences table: sequence of rows
  printerSeq,         \* the serial of printers.id: the last id handed out
  watcher,            \* module variable watcher: the folder of the open
                      \* FSWatcher, or NoDir (null)
  processedFiles,     \* module variable processedFiles: set of file paths
  parseIn,            \* a multipart body handed to parseMultipartFormData
  parseOut            \* what parseMultipartFormData returned for it

storeVars == <<printers, uploadedFiles, setting>>
relayVars == <<proxyServer, targetPrinterIp, isEnabled, servers, waiters,
               portTaken, calls>>
capVars == <<lastCapturedToken, captureLog, tokenWrites>>
reqVars == <<req, pc, loc, fwd, up, out, conn>>
dashVars == <<prefs, printerSeq>>
watchVars == <<watcher, processedFiles>>
parseVars == <<parseIn, parseOut>>
vars == <<printers, uploadedFiles, setting, proxyServer, targetPrinterIp,
          isEnabled, lastCapturedToken, servers, waiters, portTaken,
          captureLog, tokenWrites, req, pc, loc, fwd, up, out, conn, calls,
          crashed, prefs, printerSeq, watcher, processedFiles, parseIn,
          parseOut>>

NoRow == [present |-> FALSE, ip |-> NoIp, token |-> NoTok, isConnected |-> FALSE]
NoReq == [method |-> "none"]
NoResp == [status |-> 0]
NoParse == [parsed |-> FALSE]
NoInput == [filename |-> NoFile, content |-> <<>>, body |-> <<>>]
Keep == "keep"                     \* a column an update does not set
NoCall == [kind |-> "none", pc |-> "idle", ip |-> NoIp, printer |-> 0,
           tok |-> NoTok, on |-> Keep, srv |-> 0, status |-> 0,
           file |-> NoFile, mods |-> "none", dir |-> NoDir, fileId |-> 0,
           sent |-> <<>>, threw |-> FALSE]

\* ------------------------------------------------------- inbound requests
\* A request as the relay sees it once the body is buffered: method, path,
\* the raw token parameter of the query string, the Content-Type, and the
\* body (empty, a URL-encoded form, or a multipart form).
EmptyBody == [kind |-> "empty", tok |-> NoTok, file |-> NoFile]
FormBodies == [kind : {"form"}, tok : RawTokens \cup {NoTok}, file : {NoFile}]
MultipartBodies == [kind : {"multipart"}, tok : Tokens \cup {NoTok},
                    file : Filenames \cup {NoFile}]

StatusRequests ==
  [method : {"GET"}, path : {"/api/v1/status"}, urlTok : RawTokens \cup {NoTok},
   ctype : {"none"}, body : {EmptyBody}]
\* a token parameter in the URL of a request that has a body
PostUrlTokens == {"T2", "%", NoTok}
ConnectRequests ==
  [method : {"POST"}, path : {"/api/v1/connect"}, urlTok : PostUrlTokens,
   ctype : {"form"}, body : FormBodies]
UploadRequests ==
  [method : {"POST"}, path : {"/api/v1/upload"}, urlTok : PostUrlTokens,
   ctype : {"multipart", "multipart-noboundary"}, body : MultipartBodies]

Requests == StatusRequests \cup ConnectRequests \cup UploadRequests

\* decodeURIComponent: throws URIError on a malformed escape
decodeThrows(raw) == raw = "%"
decodeURIComponent(raw) == IF raw = "T%31" THEN "T1" ELSE raw

\* extractTokenFromUrl: the token= parameter of the query string, decoded
extractTokenFromUrl(q) ==
  IF q.urlTok = NoTok THEN [thrown |-> FALSE, tok |-> NoTok]
  ELSE IF decodeThrows(q.urlTok) THEN [thrown |-> TRUE, tok |-> NoTok]
  ELSE [thrown |-> FALSE, tok |-> decodeURIComponent(q.urlTok)]

\* parseUrlEncodedBody(body).token
parseUrlEncodedBody(b) ==
  IF b.kind # "form" \/ b.tok = NoTok THEN [thrown |-> FALSE, tok |-> NoTok]
  ELSE IF decodeThrows(b.tok) THEN [thrown |-> TRUE, tok |-> NoTok]
  ELSE [thrown |-> FALSE, tok |-> decodeURIComponent(b.tok)]

boundaryMatch_Any(q) == q.ctype \in {"multipart", "multipart-noboundary"}
\* contentType.match(/boundary=(.+)/)
boundaryMatch(q) == q.ctype = "multipart"

\* the fields parseMultipartFormData returns for a body
parsedMultipart(b) ==
  IF b.kind = "multipart" THEN [token |-> b.tok, filename |-> b.file]
  ELSE [token |-> NoTok, filename |-> NoFile]

capturedToken_BodyFirst(q) ==
  LET u == extractTokenFromUrl(q)
      f == parseUrlEncodedBody(q.body)
      m == parsedMultipart(q.body)
  IN IF q.ctype = "form" /\ q.body.kind # "empty" /\ (f.thrown \/ f.tok # NoTok) THEN f
     ELSE IF q.ctype \in {"multipart", "multipart-noboundary"} /\ boundaryMatch(q)
             /\ m.token # NoTok
          THEN [thrown |-> FALSE, tok |-> m.token]
     ELSE u
\* lines 124-147 of handleProxyRequest: the three token sources in order
capturedToken(q) ==
  LET u == extractTokenFromUrl(q)
      f == parseUrlEncodedBody(q.body)
      m == parsedMultipart(q.body)
  IN IF u.thrown THEN u
     ELSE IF u.tok # NoTok THEN u
     ELSE IF q.ctype = "form" /\ q.body.kind # "empty" /\ (f.thrown \/ f.tok # NoTok) THEN f
     ELSE IF q.ctype \in {"multipart", "multipart-noboundary"} /\ boundaryMatch(q)
             /\ m.token # NoTok
          THEN [thrown |-> FALSE, tok |-> m.token]
     ELSE [thrown |-> FALSE, tok |-> NoTok]

\* lines 155-162: the request is an upload whose file part was parsed
capturesFile(q) ==
  /\ q.path = "/api/v1/upload"
  /\ q.method = "POST"
  /\ boundaryMatch(q)
  /\ parsedMultipart(q.body).filename # NoFile

\* ----------------------------------------------------------------- storage
\* getAllPrinters: the rows, listed in id order
getAllPrinters == {i \in PrinterIds : printers[i].present}

Min(S) == CHOOSE x \in S : \A y \in S : x <= y

findPrinter_Any(ip) ==
  IF getAllPrinters = {} THEN 0 ELSE Min(getAllPrinters)
\* printers.find((p) => p.ipAddress === ip): 0 when none
findPrinter(ip) ==
  LET m == {i \in getAllPrinters : printers[i].ip = ip}
  IN IF m = {} THEN 0 ELSE Min(m)

findPrinterOrFirst_First(ip) ==
  IF getAllPrinters = {} THEN 0 ELSE Min(getAllPrinters)
\* printers.find(...) || printers[0]
findPrinterOrFirst(ip) ==
  IF findPrinter(ip) # 0 THEN findPrinter(ip)
  ELSE IF getAllPrinters = {} THEN 0 ELSE Min(getAllPrinters)

\* updatePrinter(id, {token}): updates the row when it exists
updatePrinterToken(id, t) ==
  IF printers[id].present THEN [printers EXCEPT ![id].token = t] ELSE printers

\* getUploadedFiles(printerId).some((f) => f.filename === name)
alreadyExists(id, name) ==
  \E k \in 1 .. Len(uploadedFiles) :
     uploadedFiles[k].printerId = id /\ uploadedFiles[k].filename = name

printerExists_Any(id) == TRUE
\* printer_id INTEGER REFERENCES printers(id): an insert of a row is
\* accepted only when the printer row exists
printerExists(id) == id \in PrinterIds /\ printers[id].present

relaySource_Captured == "relay-captured"
\* line 184: the source tag of a file the relay saves
relaySource == "luban"

\* ------------------------------------------------- handleProxyRequest
forward_Saved(r, q) ==
  /\ fwd' = [fwd EXCEPT ![r] = Append(@, [target |-> setting,
                 method |-> q.method, path |-> q.path, urlTok |-> q.urlTok,
                 body |-> q.body])]
  /\ pc' = [pc EXCEPT ![r] = "fwd"]
\* lines 198-228: build the outbound request from the inbound one and the
\* relay target as it is now, and send it
forward(r, q) ==
  /\ fwd' = [fwd EXCEPT ![r] = Append(@, [target |-> targetPrinterIp,
                 method |-> q.method, path |-> q.path, urlTok |-> q.urlTok,
                 body |-> q.body])]
  /\ pc' = [pc EXCEPT ![r] = "fwd"]

\* lines 154-196, entered when the token part is over
fileSection(r, q) ==
  IF capturesFile(q)
  THEN /\ pc' = [pc EXCEPT ![r] = "fileList"]
       /\ UNCHANGED fwd
  ELSE forward(r, q)

\* the server that holds port 8080 in this process: 0 when none
listener == IF \E s \in 1 .. Len(servers) : servers[s] = "listening"
            THEN CHOOSE s \in 1 .. Len(servers) : servers[s] = "listening"
            ELSE 0

\* line 30 of saveCapturedToken, negated: the token is kept only when it
\* is non-empty and differs from the last captured one
isNewToken_Same(t) == t # NoTok
isNewToken(t) == t # NoTok /\ t # lastCapturedToken

\* the 'end' event of an inbound request: token extraction and the
\* synchronous head of saveCapturedToken (lines 100-152, 29-39)
RequestEnd(r, q) ==
  /\ ~crashed
  /\ req[r] = NoReq
  /\ \A k \in ReqIds : k < r => req[k] # NoReq
  /\ listener # 0
  /\ req' = [req EXCEPT ![r] = q]
  /\ conn' = [conn EXCEPT ![r] = listener]
  /\ LET c == capturedToken(q) IN
     IF targetPrinterIp = NoIp
     THEN /\ out' = [out EXCEPT ![r] = [status |-> NoTarget, headers |-> "json",
                                        body |-> "No printer configured for proxy"]]
          /\ pc' = [pc EXCEPT ![r] = "done"]
          /\ UNCHANGED <<fwd, capVars, crashed>>
     ELSE IF c.thrown
     THEN \* URIError inside the async 'end' listener: unhandled rejection
          /\ pc' = [pc EXCEPT ![r] = "thrown"]
          /\ crashed' = TRUE
          /\ UNCHANGED <<fwd, out, capVars>>
     ELSE IF isNewToken(c.tok)
     THEN /\ lastCapturedToken' = c.tok
          /\ captureLog' = Append(captureLog, [token |-> c.tok, by |-> r])
          /\ pc' = [pc EXCEPT ![r] = "tokList"]
          /\ UNCHANGED <<fwd, out, tokenWrites, crashed>>
     ELSE /\ fileSection(r, q)
          /\ UNCHANGED <<out, capVars, crashed>>
  /\ UNCHANGED <<storeVars, relayVars, loc, up>>
  /\ UNCHANGED dashVars
  /\ UNCHANGED <<watchVars, parseVars>>

\* saveCapturedToken, lines 41-47: getAllPrinters answered
TokenLookup(r, ok) ==
  /\ ~crashed
  /\ pc[r] = "tokList"
  /\ LET p == findPrinter(targetPrinterIp) IN
     IF ok /\ p # 0
     THEN /\ loc' = [loc EXCEPT ![r] = p]
          /\ pc' = [pc EXCEPT ![r] = "tokWrite"]
          /\ UNCHANGED fwd
     ELSE /\ fileSection(r, req[r])
          /\ UNCHANGED loc
  /\ UNCHANGED <<storeVars, relayVars, capVars, req, up, out, conn, crashed>>
  /\ UNCHANGED dashVars
  /\ UNCHANGED <<watchVars, parseVars>>

\* saveCapturedToken, lines 49-53: updatePrinter answered
TokenWrite(r, ok) ==
  /\ ~crashed
  /\ pc[r] = "tokWrite"
  /\ tokenWrites' = Append(tokenWrites, [printer |-> loc[r],
                      token |-> capturedToken(req[r]).tok, by |-> r, ok |-> ok])
  /\ printers' = IF ok THEN updatePrinterToken(loc[r], capturedToken(req[r]).tok)
                 ELSE printers
  /\ fileSection(r, req[r])
  /\ UNCHANGED <<uploadedFiles, setting, relayVars, lastCapturedToken,
                 captureLog, req, loc, up, out, conn, crashed>>
  /\ UNCHANGED dashVars
  /\ UNCHANGED <<watchVars, parseVars>>

\* lines 166-173: getAllPrinters answered, printer picked
FileLookup(r, ok) ==
  /\ ~crashed
  /\ pc[r] = "fileList"
  /\ LET p == findPrinterOrFirst(targetPrinterIp) IN
     IF ok /\ p # 0
     THEN /\ loc' = [loc EXCEPT ![r] = p]
          /\ pc' = [pc EXCEPT ![r] = "fileExist"]
          /\ UNCHANGED fwd
     ELSE /\ forward(r, req[r])
          /\ UNCHANGED loc
  /\ UNCHANGED <<storeVars, relayVars, capVars, req, up, out, conn, crashed>>
  /\ UNCHANGED dashVars
  /\ UNCHANGED <<watchVars, parseVars>>

\* lines 173-178: getUploadedFiles answered, name looked up
FileCheck(r, ok) ==
  /\ ~crashed
  /\ pc[r] = "fileExist"
  /\ IF ok /\ ~alreadyExists(loc[r], parsedMultipart(req[r].body).filename)
     THEN /\ pc' = [pc EXCEPT ![r] = "fileAdd"]
          /\ UNCHANGED fwd
     ELSE forward(r, req[r])
  /\ UNCHANGED <<storeVars, relayVars, capVars, req, loc, up, out, conn, crashed>>
  /\ UNCHANGED dashVars
  /\ UNCHANGED <<watchVars, parseVars>>

\* lines 179-193: addUploadedFile answered; the insert fails when the
\* storage call fails or the printer row is gone (foreign key)
FileInsert(r, ok) ==
  /\ ~crashed
  /\ pc[r] = "fileAdd"
  /\ uploadedFiles' =
       IF ok /\ printerExists(loc[r])
       THEN Append(uploadedFiles, [printerId |-> loc[r],
                     filename |-> parsedMultipart(req[r].body).filename,
                     source |-> relaySource, by |-> r])
       ELSE uploadedFiles
  /\ forward(r, req[r])
  /\ UNCHANGED <<printers, setting, relayVars, capVars, req, loc, up, out,
                 conn, crashed>>
  /\ UNCHANGED dashVars
  /\ UNCHANGED <<watchVars, parseVars>>

\* responses the printer can give
PrinterResponses ==
  [status : {200, 401}, headers : {"json"}, body : {"ok"}] \cup
  [status : {204}, headers : {"plain"}, body : {""}]

responseHead_Ok(resp) ==
  [status |-> 200, headers |-> resp.headers, body |-> "..."]
\* line 208: res.writeHead(proxyRes.statusCode || 200, proxyRes.headers)
responseHead(resp) ==
  [status |-> IF resp.status = 0 THEN 200 ELSE resp.status,
   headers |-> resp.headers, body |-> "..."]

\* lines 207-210: the printer's response head arrives; it is written to the
\* caller and the body is piped
ProxyResponse(r, resp) ==
  /\ ~crashed
  /\ pc[r] = "fwd"
  /\ up' = [up EXCEPT ![r] = resp]
  /\ out' = [out EXCEPT ![r] = responseHead(resp)]
  /\ pc' = [pc EXCEPT ![r] = "piping"]
  /\ UNCHANGED <<storeVars, relayVars, capVars, req, loc, fwd, conn, crashed>>
  /\ UNCHANGED dashVars
  /\ UNCHANGED <<watchVars, parseVars>>

\* proxyRes.pipe(res) reaches the end of the printer's body
ProxyResponseEnd(r) ==
  /\ ~crashed
  /\ pc[r] = "piping"
  /\ out' = [out EXCEPT ![r].body = up[r].body]
  /\ pc' = [pc EXCEPT ![r] = "done"]
  /\ UNCHANGED <<storeVars, relayVars, capVars, req, loc, fwd, up, conn, crashed>>
  /\ UNCHANGED dashVars
  /\ UNCHANGED <<watchVars, parseVars>>

\* res.writeHead: throws ERR_HTTP_HEADERS_SENT when the head was written;
\* thrown from an event listener, the exception is uncaught
writeError(r, status, text) ==
  IF out[r] = NoResp
  THEN /\ out' = [out EXCEPT ![r] = [status |-> status, headers |-> "json",
                                     body |-> text]]
       /\ UNCHANGED crashed
  ELSE /\ crashed' = TRUE
       /\ UNCHANGED out

\* lines 212-216: 'error' on the outbound request (connection refused,
\* reset, also while the body is piped)
ProxyError(r) ==
  /\ ~crashed
  /\ pc[r] \in {"fwd", "piping"}
  /\ writeError(r, GatewayError, "Failed to connect to printer")
  /\ pc' = [pc EXCEPT ![r] = "errored"]
  /\ UNCHANGED <<storeVars, relayVars, capVars, req, loc, fwd, up, conn>>
  /\ UNCHANGED dashVars
  /\ UNCHANGED <<watchVars, parseVars>>

\* lines 218-223: 'timeout' on the outbound socket; destroy() makes the
\* request emit 'error' (socket hang up) afterwards
ProxyTimeout(r) ==
  /\ ~crashed
  /\ pc[r] \in {"fwd", "piping"}
  /\ writeError(r, GatewayTimeout, "Printer request timeout")
  /\ pc' = [pc EXCEPT ![r] = "destroyed"]
  /\ UNCHANGED <<storeVars, relayVars, capVars, req, loc, fwd, up, conn>>
  /\ UNCHANGED dashVars
  /\ UNCHANGED <<watchVars, parseVars>>

\* the 'error' event that follows proxyReq.destroy()
ProxyErrorAfterDestroy(r) ==
  /\ ~crashed
  /\ pc[r] = "destroyed"
  /\ writeError(r, GatewayError, "Failed to connect to printer")
  /\ pc' = [pc EXCEPT ![r] = "destroyedErr"]
  /\ UNCHANGED <<storeVars, relayVars, capVars, req, loc, fwd, up, conn>>
  /\ UNCHANGED dashVars
  /\ UNCHANGED <<watchVars, parseVars>>

\* ------------------------------------------- startLubanProxy / stopLubanProxy
\* Node's net.Server: close() releases the port at once, and the 'close'
\* event, which runs the callbacks given to close(), is emitted once the
\* server has no open connection.  close() on a server that is not
\* listening registers the callback all the same.  listen() on a literal
\* address binds within the same turn of the event loop, so a start runs
\* from line 237 to the 'listening' or 'error' event with no other event
\* in between.

\* the requests whose connection to server s is open
connections(s) == {r \in ReqIds : conn[r] = s}

\* bind(2) of port 8080 succeeds
portFree(srv) == ~portTaken /\ \A j \in 1 .. Len(srv) : srv[j] # "listening"

\* the module variables and the route calls, as a value to thread through
\* the steps of one turn
cur == [ps |-> proxyServer, tgt |-> targetPrinterIp, en |-> isEnabled,
        srv |-> servers, cs |-> calls]

\* stopLubanProxy lines 263-268: the callbacks of close()
closeCallbacks(st, s) ==
  [st EXCEPT !.ps = 0, !.en = FALSE, !.srv[s] = "closed"]

\* startLubanProxy lines 237-241 and 253, for every start whose await of
\* stopLubanProxy has ended, in the order the promises resolve
RECURSIVE resumeStarts(_, _)
resumeStarts(ws, st) ==
  IF ws = <<>> THEN st
  ELSE IF st.cs[Head(ws)].kind = "start"
  THEN resumeStarts(Tail(ws),
         [st EXCEPT !.tgt = st.cs[Head(ws)].ip, !.en = TRUE,
                    !.srv = Append(st.srv, "binding"),
                    !.ps = Len(st.srv) + 1,
                    !.cs[Head(ws)].srv = Len(st.srv) + 1])
  ELSE resumeStarts(Tail(ws), st)

\* the binds of the servers created in this turn, in creation order; a
\* failed bind emits 'error' (lines 243-251)
RECURSIVE bindAll(_, _)
bindAll(i, st) ==
  IF i > Len(st.srv) THEN st
  ELSE IF st.srv[i] # "binding" THEN bindAll(i + 1, st)
  ELSE IF portFree(st.srv)
  THEN bindAll(i + 1, [st EXCEPT !.srv[i] = "listening"])
  ELSE bindAll(i + 1, [st EXCEPT !.srv[i] = "failed", !.en = FALSE])

\* routes.ts lines 838-854: what the route does with the resolved promise
resolveCalls(ws, st) ==
  [st EXCEPT !.cs = [c \in CallIds |->
     IF \E k \in DOMAIN ws : ws[k] = c
     THEN IF st.cs[c].kind = "start"
          THEN IF st.srv[st.cs[c].srv] = "listening"
               THEN [st.cs[c] EXCEPT !.pc = "setSetting"]
               ELSE [st.cs[c] EXCEPT !.pc = "done", !.status = 400]
          ELSE [st.cs[c] EXCEPT !.pc = "done", !.status = 200]
     ELSE st.cs[c]]]

\* the turn that starts with the 'close' event of server s
closeEvent(ws, st, s) ==
  resolveCalls(ws, bindAll(1, resumeStarts(ws, closeCallbacks(st, s))))

setRelay(st, ws) ==
  /\ proxyServer' = st.ps
  /\ targetPrinterIp' = st.tgt
  /\ isEnabled' = st.en
  /\ servers' = st.srv
  /\ calls' = st.cs
  /\ waiters' = ws

\* proxyServer.close(cb), lines 262-263, by call c (already entered in st)
closeServer(c, st) ==
  LET s == proxyServer
      st1 == [st EXCEPT !.srv[s] = IF @ = "listening" THEN "closing" ELSE @]
  IN IF connections(s) = {}
     THEN setRelay(closeEvent(Append(waiters, c), st1, s), <<>>)
     ELSE setRelay(st1, Append(waiters, c))

\* PUT /api/settings/luban-proxy with a printer address: startLubanProxy
PutStart(c, ip) ==
  /\ ~crashed
  /\ calls[c] = NoCall
  /\ \A k \in CallIds : k < c => calls[k] # NoCall
  /\ LET st == [cur EXCEPT !.cs[c] = [NoCall EXCEPT !.kind = "start", !.ip = ip,
                                        !.pc = "awaitClose", !.srv = proxyServer]]
     IN IF proxyServer = 0
        THEN setRelay(resolveCalls(<<c>>, bindAll(1, resumeStarts(<<c>>, st))), waiters)
        ELSE closeServer(c, st)
  /\ UNCHANGED <<storeVars, portTaken, capVars, reqVars, crashed>>
  /\ UNCHANGED dashVars
  /\ UNCHANGED <<watchVars, parseVars>>

\* PUT /api/settings/luban-proxy with enabled = false: the setting is
\* cleared, then stopLubanProxy is awaited
PutDisable(c, ok) ==
  /\ ~crashed
  /\ calls[c] = NoCall
  /\ \A k \in CallIds : k < c => calls[k] # NoCall
  /\ LET st == [cur EXCEPT !.cs[c] = [NoCall EXCEPT !.kind = "disable",
                                        !.pc = "awaitClose", !.srv = proxyServer]]
     IN IF ~ok
        THEN /\ setRelay([cur EXCEPT !.cs[c] = [NoCall EXCEPT !.kind = "disable",
                               !.pc = "done", !.status = 500]], waiters)
             /\ UNCHANGED setting
        ELSE /\ setting' = NoIp
             /\ IF proxyServer = 0
                THEN setRelay(resolveCalls(<<c>>, st), waiters)
                ELSE closeServer(c, st)
  /\ UNCHANGED <<printers, uploadedFiles, portTaken, capVars, reqVars, crashed>>
  /\ UNCHANGED dashVars
  /\ UNCHANGED <<watchVars, parseVars>>

\* routes.ts lines 856-862: the started relay's target is saved
PutStartSave(c, ok) ==
  /\ ~crashed
  /\ calls[c].pc = "setSetting"
  /\ setting' = IF ok THEN calls[c].ip ELSE setting
  /\ calls' = [calls EXCEPT ![c].pc = "done", ![c].status = IF ok THEN 200 ELSE 500]
  /\ UNCHANGED <<printers, uploadedFiles, proxyServer, targetPrinterIp, isEnabled,
                 servers, waiters, portTaken, capVars, reqVars, crashed>>
  /\ UNCHANGED dashVars
  /\ UNCHANGED <<watchVars, parseVars>>

\* the connection of request r ends (the client closes it, or it is closed
\* after the response); the last one of a closing server lets it emit 'close'
ConnClose(r) ==
  /\ ~crashed
  /\ conn[r] > 0
  /\ conn' = [conn EXCEPT ![r] = 0 - conn[r]]
  /\ IF waiters # <<>> /\ calls[Head(waiters)].srv = conn[r]
        /\ connections(conn[r]) = {r}
     THEN setRelay(closeEvent(waiters, cur, conn[r]), <<>>)
     ELSE UNCHANGED <<proxyServer, targetPrinterIp, isEnabled, servers, waiters, calls>>
  /\ UNCHANGED <<storeVars, portTaken, capVars, req, pc, loc, fwd, up, out, crashed>>
  /\ UNCHANGED dashVars
  /\ UNCHANGED <<watchVars, parseVars>>

\* another process binds port 8080, or releases it
PortTake ==
  /\ ~portTaken /\ listener = 0
  /\ portTaken' = TRUE
  /\ UNCHANGED <<storeVars, proxyServer, targetPrinterIp, isEnabled, servers,
                 waiters, calls, capVars, reqVars, crashed>>
  /\ UNCHANGED dashVars
  /\ UNCHANGED <<watchVars, parseVars>>

PortRelease ==
  /\ portTaken
  /\ portTaken' = FALSE
  /\ UNCHANGED <<storeVars, proxyServer, targetPrinterIp, isEnabled, servers,
                 waiters, calls, capVars, reqVars, crashed>>
  /\ UNCHANGED dashVars
  /\ UNCHANGED <<watchVars, parseVars>>

\* getLubanProxyStatus().enabled, line 282
statusEnabled == isEnabled /\ proxyServer # 0

\* ------------------------------------------------- routes of a printer
\* What snapmakerRequest (routes.ts lines 26-63) gives its caller: it
\* throws on a network failure, a timeout or a non-2xx status, returns
\* {status: 204}, the parsed JSON body (with or without a token field), or
\* {status} of a 2xx answer that is not JSON.
FetchResults == {"throw", "204", "200", "json"} \cup Tokens

updatePrinter_TokenOnly(id, t, on) ==
  IF printers[id].present
  THEN [printers EXCEPT ![id].token = IF t = Keep THEN @ ELSE t]
  ELSE printers
\* updatePrinter(id, data) for the columns token and isConnected
updatePrinter(id, t, on) ==
  IF printers[id].present
  THEN [printers EXCEPT ![id].token = IF t = Keep THEN @ ELSE t,
                        ![id].isConnected = IF on = Keep THEN @ ELSE on = "true"]
  ELSE printers

respond(c, status) == [calls EXCEPT ![c].pc = "done", ![c].status = status]
awaitFetch(c, kind, id) ==
  [calls EXCEPT ![c] = [NoCall EXCEPT !.kind = kind, !.printer = id, !.pc = "fetch",
                                      !.sent = <<kind>>]]
awaitUpdate(c, t, on, after) ==
  [calls EXCEPT ![c].pc = after, ![c].tok = t, ![c].on = on]

RouteKinds == {"connect", "status", "disconnect", "autoReconnect"}

\* the head of a route up to its first call of the printer: getPrinter
\* answered (connect 95-109, status 147-165, disconnect 196-216,
\* auto-reconnect 278-298); ok = FALSE: the storage call threw
RouteBegin(c, kind, id, ok) ==
  /\ ~crashed
  /\ calls[c] = NoCall
  /\ \A k \in CallIds : k < c => calls[k] # NoCall
  /\ LET me == [NoCall EXCEPT !.kind = kind, !.printer = id]
     IN calls' =
          IF ~ok
          THEN IF kind = "status"
               THEN [calls EXCEPT ![c] = [me EXCEPT !.pc = "updateFailed", !.tok = Keep,
                                                     !.on = "false"]]
               ELSE [calls EXCEPT ![c] = [me EXCEPT !.pc = "done",
                        !.status = IF kind = "autoReconnect" THEN 200 ELSE 500]]
          ELSE IF ~printers[id].present
          THEN [calls EXCEPT ![c] = [me EXCEPT !.pc = "done", !.status = 404]]
          ELSE IF kind \in {"status", "autoReconnect"} /\ printers[id].token = NoTok
          THEN [calls EXCEPT ![c] = [me EXCEPT !.pc = "done", !.status = 400]]
          ELSE IF kind = "disconnect" /\ printers[id].token = NoTok
          THEN [calls EXCEPT ![c] = [me EXCEPT !.pc = "update", !.tok = NoTok, !.on = "false"]]
          ELSE awaitFetch(c, kind, id)
  /\ UNCHANGED <<storeVars, proxyServer, targetPrinterIp, isEnabled, servers,
                 waiters, portTaken, capVars, reqVars, crashed>>
  /\ UNCHANGED dashVars
  /\ UNCHANGED <<watchVars, parseVars>>

RouteFetched_ClearAnyway(c, res) ==
  /\ ~crashed
  /\ calls[c].pc = "fetch"
  /\ calls' =
       [(CASE calls[c].kind = "connect" ->
              IF res = "throw" THEN respond(c, 500)
              ELSE IF res \in Tokens THEN awaitUpdate(c, res, "true", "update")
              ELSE IF res = "204" THEN respond(c, 200)
              ELSE awaitUpdate(c, Keep, "true", "update")
         [] calls[c].kind = "status" ->
              IF res = "throw" THEN awaitUpdate(c, Keep, "false", "updateFailed")
              ELSE awaitUpdate(c, Keep, "true", "update")
         [] calls[c].kind = "disconnect" ->
              awaitUpdate(c, NoTok, "false", "update")
         [] calls[c].kind = "autoReconnect" ->
              IF res = "throw" THEN respond(c, 200)
              ELSE IF res \in Tokens THEN awaitUpdate(c, res, "true", "update")
              ELSE IF res = "200" THEN awaitUpdate(c, Keep, "true", "update")
              ELSE respond(c, 200))
        EXCEPT ![c].threw = (res = "throw")]
  /\ UNCHANGED <<storeVars, proxyServer, targetPrinterIp, isEnabled, servers,
                 waiters, portTaken, capVars, reqVars, crashed>>
  /\ UNCHANGED dashVars
  /\ UNCHANGED <<watchVars, parseVars>>

\* the printer's answer reaches the route (connect 111-143, status 167-191,
\* disconnect 213-223, auto-reconnect 300-330)
RouteFetched(c, res) ==
  /\ ~crashed
  /\ calls[c].pc = "fetch"
  /\ calls' =
       [(CASE calls[c].kind = "connect" ->
              IF res = "throw" THEN respond(c, 500)
              ELSE IF res \in Tokens THEN awaitUpdate(c, res, "true", "update")
              ELSE IF res = "204" THEN respond(c, 200)
              ELSE awaitUpdate(c, Keep, "true", "update")
         [] calls[c].kind = "status" ->
              IF res = "throw" THEN awaitUpdate(c, Keep, "false", "updateFailed")
              ELSE awaitUpdate(c, Keep, "true", "update")
         [] calls[c].kind = "disconnect" ->
              IF res = "throw" THEN respond(c, 500)
              ELSE awaitUpdate(c, NoTok, "false", "update")
         [] calls[c].kind = "autoReconnect" ->
              IF res = "throw" THEN respond(c, 200)
              ELSE IF res \in Tokens THEN awaitUpdate(c, res, "true", "update")
              ELSE IF res = "200" THEN awaitUpdate(c, Keep, "true", "update")
              ELSE respond(c, 200))
        EXCEPT ![c].threw = (res = "throw")]
  /\ UNCHANGED <<storeVars, proxyServer, targetPrinterIp, isEnabled, servers,
                 waiters, portTaken, capVars, reqVars, crashed>>
  /\ UNCHANGED dashVars
  /\ UNCHANGED <<watchVars, parseVars>>

\* the route's updatePrinter answered; the route responds.  When the call
\* throws, the route's catch answers 500 (auto-reconnect: a failure body);
\* the catch of the status route awaits another updatePrinter, and when
\* that one throws the rejection is unhandled
RouteUpdate(c, ok) ==
  /\ ~crashed
  /\ calls[c].pc \in {"update", "updateFailed"}
  /\ printers' = IF ok THEN updatePrinter(calls[c].printer, calls[c].tok, calls[c].on)
                 ELSE printers
  /\ calls' =
       IF ok THEN respond(c, IF calls[c].pc = "update" THEN 200 ELSE 500)
       ELSE IF calls[c].kind = "status"
       THEN IF calls[c].pc = "update"
            THEN awaitUpdate(c, Keep, "false", "updateFailed")
            ELSE [calls EXCEPT ![c].pc = "thrown"]
       ELSE respond(c, IF calls[c].kind = "autoReconnect" THEN 200 ELSE 500)
  /\ crashed' = (~ok /\ calls[c].kind = "status" /\ calls[c].pc = "updateFailed")
  /\ UNCHANGED <<uploadedFiles, setting, proxyServer, targetPrinterIp, isEnabled,
                 servers, waiters, portTaken, capVars, reqVars>>
  /\ UNCHANGED dashVars
  /\ UNCHANGED <<watchVars, parseVars>>

\* POST /api/printers/:id/save-token (lines 236-250); tok = NoTok stands for
\* a body without a token
SaveToken(c, id, tok, ok) ==
  /\ ~crashed
  /\ calls[c] = NoCall
  /\ \A k \in CallIds : k < c => calls[k] # NoCall
  /\ printers' = IF tok = NoTok \/ ~ok THEN printers ELSE updatePrinter(id, tok, Keep)
  /\ calls' = [calls EXCEPT ![c] = [NoCall EXCEPT !.kind = "saveToken",
                  !.printer = id, !.tok = tok, !.pc = "done",
                  !.status = IF tok = NoTok THEN 400 ELSE IF ok THEN 200 ELSE 500]]
  /\ UNCHANGED <<uploadedFiles, setting, proxyServer, targetPrinterIp, isEnabled,
                 servers, waiters, portTaken, capVars, reqVars, crashed>>
  /\ UNCHANGED dashVars
  /\ UNCHANGED <<watchVars, parseVars>>

\* ------------------------------------- printers, files and preferences
otherVars == <<setting, proxyServer, targetPrinterIp, isEnabled, servers,
               waiters, portTaken, capVars, reqVars, crashed, parseVars>>

beginCall(c) ==
  /\ ~crashed
  /\ calls[c] = NoCall
  /\ \A k \in CallIds : k < c => calls[k] # NoCall

\* the rows that refer to printer id; REFERENCES without ON DELETE: the
\* printer row cannot be deleted while one is left
referenced(id) ==
  \/ \E k \in DOMAIN uploadedFiles : uploadedFiles[k].printerId = id
  \/ \E k \in DOMAIN prefs : prefs[k].printerId = id

\* printers.find((p) => p.isConnected) || printers[0]: 0 when none
connectedOrFirst ==
  LET m == {i \in getAllPrinters : printers[i].isConnected}
  IN IF m # {} THEN Min(m)
     ELSE IF getAllPrinters = {} THEN 0 ELSE Min(getAllPrinters)

\* POST /api/printers (routes.ts 79-92): createPrinter inserts a row under
\* the next serial id
CreatePrinter(c, ip, ok) ==
  /\ beginCall(c)
  /\ printerSeq < MaxPrinters
  /\ IF ok
     THEN /\ printerSeq' = printerSeq + 1
          /\ printers' = [printers EXCEPT ![printerSeq + 1] =
                            [present |-> TRUE, ip |-> ip, token |-> NoTok,
                             isConnected |-> FALSE]]
     ELSE UNCHANGED <<printers, printerSeq>>
  /\ calls' = [calls EXCEPT ![c] = [NoCall EXCEPT !.kind = "create", !.ip = ip,
                  !.pc = "done", !.status = IF ok THEN 201 ELSE 500]]
  /\ UNCHANGED <<uploadedFiles, prefs, otherVars, watchVars>>

\* DELETE /api/printers/:id (routes.ts 226-234), deletePrinter line 48: the
\* preference rows of the printer are deleted
DeletePrinterBegin(c, id, ok) ==
  /\ beginCall(c)
  /\ prefs' = IF ok THEN SelectSeq(prefs, LAMBDA p : p.printerId # id) ELSE prefs
  /\ calls' = [calls EXCEPT ![c] = [NoCall EXCEPT !.kind = "delete", !.printer = id,
                  !.pc = IF ok THEN "deleteRow" ELSE "done",
                  !.status = IF ok THEN 0 ELSE 500]]
  /\ UNCHANGED <<printers, uploadedFiles, printerSeq, otherVars, watchVars>>

\* deletePrinter line 49: the printer row is deleted, unless the statement
\* fails or a row still refers to it
DeletePrinterEnd(c, ok) ==
  /\ ~crashed
  /\ calls[c].kind = "delete" /\ calls[c].pc = "deleteRow"
  /\ LET id == calls[c].printer
         done == ok /\ ~referenced(id)
     IN /\ printers' = IF done THEN [printers EXCEPT ![id] = NoRow] ELSE printers
        /\ calls' = respond(c, IF done THEN 200 ELSE 500)
  /\ UNCHANGED <<uploadedFiles, dashVars, otherVars, watchVars>>

\* how a file comes in besides the relay: POST /api/printers/:id/uploaded-files
\* (routes.ts 579-608, "manual"), POST /api/files/local and POST /api/upload
\* (routes.ts 635-730, "slicer"), the watch folder (storage.ts 94-143)
IngestKinds == {"manual", "slicer"}

\* the printer of the file is looked up: getPrinter(id) for a manual upload,
\* getAllPrinters and connected-or-first for a slicer upload
IngestBegin(c, kind, id, name, ok) ==
  /\ beginCall(c)
  /\ kind # "manual" => id = 1
  /\ LET target == IF kind = "manual"
                   THEN IF printers[id].present THEN id ELSE 0
                   ELSE connectedOrFirst
         me == [NoCall EXCEPT !.kind = kind, !.printer = target, !.file = name]
     IN calls' = [calls EXCEPT ![c] =
          IF ~ok THEN [me EXCEPT !.pc = "done", !.status = 500]
          ELSE IF target = 0
          THEN [me EXCEPT !.pc = "done",
                          !.status = IF kind = "manual" THEN 404 ELSE 400]
          ELSE [me EXCEPT !.pc = "add"]]
  /\ UNCHANGED <<storeVars, dashVars, otherVars, watchVars>>

\* the runs of processNewFile: "watch-folder" for a run started by a
\* directory event, "scan" for the run scanExistingFiles awaits
WatchKinds == {"watch-folder", "scan"}

\* the source tag of the row a call inserts
sourceOf(kind) == IF kind \in WatchKinds THEN "watch-folder" ELSE kind

\* a run of processNewFile ends: the path is added to processedFiles where
\* the code does so (lines 120 and 138); after the run that
\* scanExistingFiles awaited, startWatcher opens the watcher (line 172)
endRun(c, add) ==
  IF calls[c].kind \in WatchKinds
  THEN /\ processedFiles' =
            IF add THEN processedFiles \cup {<<calls[c].dir, calls[c].file>>}
            ELSE processedFiles
       /\ watcher' = IF calls[c].kind = "scan" THEN calls[c].dir ELSE watcher
  ELSE UNCHANGED watchVars

scanning == \E k \in CallIds : calls[k].kind = "scan" /\ calls[k].pc # "done"

\* startWatcher(folderPath), lines 157-172: the watcher is stopped, the
\* folder is found to be a directory, processedFiles is cleared and the
\* folder is scanned; present: the folder holds the file a.gcode, whose
\* run of processNewFile passes lines 96-104 and awaits stat
StartWatcher(c, dir, present) ==
  /\ beginCall(c)
  /\ ~scanning
  /\ processedFiles' = {}
  /\ watcher' = IF present THEN NoDir ELSE dir
  /\ calls' = [calls EXCEPT ![c] =
       [NoCall EXCEPT !.kind = "scan", !.dir = dir,
                      !.file = IF present THEN "a.gcode" ELSE NoFile,
                      !.pc = IF present THEN "list" ELSE "done"]]
  /\ UNCHANGED <<storeVars, dashVars, otherVars>>

\* stopWatcher, lines 191-198
StopWatcher ==
  /\ ~crashed
  /\ ~scanning
  /\ watcher # NoDir
  /\ watcher' = NoDir
  /\ UNCHANGED <<storeVars, dashVars, otherVars, calls, processedFiles>>

\* lines 172-177: a "rename" event of the watched folder for file name;
\* processNewFile is scheduled 500 ms later
WatchEvent(c, name) ==
  /\ beginCall(c)
  /\ watcher # NoDir
  /\ calls' = [calls EXCEPT ![c] =
       [NoCall EXCEPT !.kind = "watch-folder", !.dir = watcher, !.file = name,
                      !.pc = "timer"]]
  /\ UNCHANGED <<storeVars, dashVars, otherVars, watchVars>>

\* the timer fires: processNewFile lines 96-104, up to the await of stat
WatchRun(c) ==
  /\ ~crashed
  /\ calls[c].pc = "timer"
  /\ calls' = IF <<calls[c].dir, calls[c].file>> \in processedFiles
              THEN respond(c, 0)
              ELSE [calls EXCEPT ![c].pc = "list"]
  /\ UNCHANGED <<storeVars, dashVars, otherVars, watchVars>>

\* lines 106-116: stat answered (a file) and getAllPrinters answered, the
\* connected or the first printer is picked; ok = FALSE: a call threw
WatchList(c, ok) ==
  /\ ~crashed
  /\ calls[c].pc = "list"
  /\ IF ok /\ connectedOrFirst # 0
     THEN /\ calls' = [calls EXCEPT ![c].pc = "exists", ![c].printer = connectedOrFirst]
          /\ UNCHANGED watchVars
     ELSE /\ calls' = respond(c, 0)
          /\ endRun(c, FALSE)
  /\ UNCHANGED <<storeVars, dashVars, otherVars>>

\* lines 118-123: getUploadedFiles answered; a name already stored for
\* the printer is skipped; otherwise the file is read
IngestCheck(c, ok) ==
  /\ ~crashed
  /\ calls[c].pc = "exists"
  /\ IF ok /\ ~alreadyExists(calls[c].printer, calls[c].file)
     THEN /\ calls' = [calls EXCEPT ![c].pc = "add"]
          /\ UNCHANGED watchVars
     ELSE /\ calls' = respond(c, IF ok THEN 200 ELSE 500)
          /\ endRun(c, ok)
  /\ UNCHANGED <<storeVars, dashVars, otherVars>>

\* addUploadedFile (part_007 101-104) answered
IngestAdd(c, ok) ==
  /\ ~crashed
  /\ calls[c].pc = "add"
  /\ LET done == ok /\ printerExists(calls[c].printer)
     IN /\ uploadedFiles' =
             IF done
             THEN Append(uploadedFiles, [printerId |-> calls[c].printer,
                           filename |-> calls[c].file,
                           source |-> sourceOf(calls[c].kind), by |-> 0])
             ELSE uploadedFiles
        /\ calls' = respond(c, IF done THEN 201 ELSE 500)
        /\ endRun(c, done)
  /\ UNCHANGED <<printers, setting, dashVars, otherVars>>

Modules == {"m1", "m2"}

\* PUT /api/printers/:id/dashboard-preferences (routes.ts 537-561):
\* getPrinter answered
PrefsBegin(c, id, mods, ok) ==
  /\ beginCall(c)
  /\ LET me == [NoCall EXCEPT !.kind = "prefs", !.printer = id, !.mods = mods]
     IN calls' = [calls EXCEPT ![c] =
          IF ~ok THEN [me EXCEPT !.pc = "done", !.status = 500]
          ELSE IF ~printers[id].present
          THEN [me EXCEPT !.pc = "done", !.status = 404]
          ELSE [me EXCEPT !.pc = "select"]]
  /\ UNCHANGED <<storeVars, dashVars, otherVars, watchVars>>

\* setDashboardPreferences lines 66-70: the select of the existing row
PrefsSelect(c, ok) ==
  /\ ~crashed
  /\ calls[c].pc = "select"
  /\ calls' = IF ~ok THEN respond(c, 500)
              ELSE IF \E k \in DOMAIN prefs : prefs[k].printerId = calls[c].printer
              THEN [calls EXCEPT ![c].pc = "update"]
              ELSE [calls EXCEPT ![c].pc = "insert"]
  /\ UNCHANGED <<storeVars, dashVars, otherVars, watchVars>>

\* lines 72-82: the update of the row found, or the insert of a new row;
\* printer_id is UNIQUE and REFERENCES printers(id)
PrefsWrite(c, ok) ==
  /\ ~crashed
  /\ calls[c].pc \in {"update", "insert"}
  /\ LET id == calls[c].printer
         taken == \E k \in DOMAIN prefs : prefs[k].printerId = id
         done == IF calls[c].pc = "update" THEN ok
                 ELSE ok /\ ~taken /\ printerExists(id)
     IN /\ prefs' =
             IF ~done THEN prefs
             ELSE IF calls[c].pc = "update"
             THEN [k \in DOMAIN prefs |->
                     IF prefs[k].printerId = id
                     THEN [prefs[k] EXCEPT !.mods = calls[c].mods] ELSE prefs[k]]
             ELSE Append(prefs, [printerId |-> id, mods |-> calls[c].mods])
        /\ calls' = respond(c, IF done THEN 200 ELSE 500)
  /\ UNCHANGED <<storeVars, printerSeq, otherVars, watchVars>>

\* ------------------------------------------- routes that command a printer
\* jog (routes.ts 333-373), home (375-406), printer file listing (408-449),
\* print (451-517)
CommandKinds == {"jog", "home", "files", "print"}

\* the row left where an uploaded file was deleted (ids are not reused)
NoFileRow == [printerId |-> 0, filename |-> NoFile, source |-> "deleted", by |-> 0]

hasToken_Always(id) == TRUE
\* if (!printer.token) return res.status(400), negated
hasToken(id) == printers[id].token # NoTok

ownedFile_AnyPrinter(f, p) ==
  f \in DOMAIN uploadedFiles /\ uploadedFiles[f] # NoFileRow
\* where id = f and printer_id = p (part_007 92-112)
ownedFile(f, p) ==
  f \in DOMAIN uploadedFiles /\ uploadedFiles[f].printerId = p

\* what a route sends first once the printer has a token
firstCommand(kind) ==
  CASE kind = "jog" -> "G91"
    [] kind = "home" -> "G28"
    [] kind = "files" -> "files"

\* the head of a command route: getPrinter answered, the checks of the
\* printer and of its token, and the first call of the printer; the print
\* route looks the file up first.  The request carries the fields the route
\* asks for (axis and distance, fileId).
CommandBegin(c, kind, id, f, ok) ==
  /\ beginCall(c)
  /\ kind # "print" => f = 1
  /\ LET me == [NoCall EXCEPT !.kind = kind, !.printer = id,
                              !.fileId = IF kind = "print" THEN f ELSE 0]
     IN calls' = [calls EXCEPT ![c] =
          IF ~ok THEN [me EXCEPT !.pc = "done", !.status = 500]
          ELSE IF ~printers[id].present THEN [me EXCEPT !.pc = "done", !.status = 404]
          ELSE IF ~hasToken(id) THEN [me EXCEPT !.pc = "done", !.status = 400]
          ELSE IF kind = "print" THEN [me EXCEPT !.pc = "getFile"]
          ELSE [me EXCEPT !.pc = IF kind = "jog" THEN "g91" ELSE "command",
                          !.sent = <<firstCommand(kind)>>]]
  /\ UNCHANGED <<storeVars, dashVars, otherVars, watchVars>>

\* the printer answered the call a command route awaits (ok), or the call
\* threw; the jog route goes on with its next G-code (lines 362-364)
CommandAnswered(c, ok) ==
  /\ ~crashed
  /\ calls[c].pc \in {"g91", "move", "g90", "command", "upload"}
  /\ calls' =
       IF ~ok THEN [calls EXCEPT ![c].pc = "done", ![c].status = 500, ![c].threw = TRUE]
       ELSE IF calls[c].pc = "g91"
       THEN [calls EXCEPT ![c].pc = "move", ![c].sent = Append(@, "G0")]
       ELSE IF calls[c].pc = "move"
       THEN [calls EXCEPT ![c].pc = "g90", ![c].sent = Append(@, "G90")]
       ELSE respond(c, 200)
  /\ UNCHANGED <<storeVars, dashVars, otherVars, watchVars>>

\* print route lines 470-497: getUploadedFile answered; the file is sent
\* to the printer when it is a file of this printer and has content
PrintFile(c, ok, content) ==
  /\ ~crashed
  /\ calls[c].pc = "getFile"
  /\ calls' =
       IF ~ok THEN respond(c, 500)
       ELSE IF ~ownedFile(calls[c].fileId, calls[c].printer) THEN respond(c, 404)
       ELSE IF ~content THEN respond(c, 400)
       ELSE [calls EXCEPT ![c].pc = "upload", ![c].sent = <<"upload">>]
  /\ UNCHANGED <<storeVars, dashVars, otherVars, watchVars>>

\* DELETE /api/printers/:id/uploaded-files/:fileId (routes.ts 612-633):
\* getPrinter answered
DeleteFileBegin(c, id, f, ok) ==
  /\ beginCall(c)
  /\ LET me == [NoCall EXCEPT !.kind = "deleteFile", !.printer = id, !.fileId = f]
     IN calls' = [calls EXCEPT ![c] =
          IF ~ok THEN [me EXCEPT !.pc = "done", !.status = 500]
          ELSE IF ~printers[id].present THEN [me EXCEPT !.pc = "done", !.status = 404]
          ELSE [me EXCEPT !.pc = "deleteFile"]]
  /\ UNCHANGED <<storeVars, dashVars, otherVars, watchVars>>

\* deleteUploadedFile answered (part_007 106-112)
DeleteFileEnd(c, ok) ==
  /\ ~crashed
  /\ calls[c].pc = "deleteFile"
  /\ LET found == ok /\ ownedFile(calls[c].fileId, calls[c].printer)
     IN /\ uploadedFiles' = IF found
                            THEN [uploadedFiles EXCEPT ![calls[c].fileId] = NoFileRow]
                            ELSE uploadedFiles
        /\ calls' = respond(c, IF ~ok THEN 500 ELSE IF found THEN 200 ELSE 404)
  /\ UNCHANGED <<printers, setting, dashVars, otherVars, watchVars>>

\* ------------------------------------------------ parseMultipartFormData
\* A body is a sequence of characters.  The characters that matter to the
\* parser are kept as they are ("\r", "\n", "-"); "a" stands for any other
\* character of a file, "B" for the boundary string, and a header line or
\* a token value is one symbol.
CR == "\r"
LF == "\n"
CRLF == <<CR, LF>>
Chars == {"a", "-", CR, LF}
TokenHeader == "name=token"
FileType == "Content-Type"
\* the header line name="file"; filename="<name>": the symbol is the name
fileHeader(name) == name

RECURSIVE SeqsUpTo(_)
SeqsUpTo(n) ==
  IF n = 0 THEN {<<>>}
  ELSE LET shorter == SeqsUpTo(n - 1)
       IN shorter \cup {Append(t, ch) : t \in {u \in shorter : Len(u) = n - 1},
                                         ch \in Chars}

Contents == SeqsUpTo(MaxLen)

\* routes.ts lines 480-494: the body the print route builds for a stored
\* file
printBody(tok, name, content) ==
  <<"-", "-", "B">> \o CRLF \o <<TokenHeader>> \o CRLF \o CRLF \o <<tok>> \o CRLF
  \o <<"-", "-", "B">> \o CRLF \o <<fileHeader(name)>> \o CRLF \o <<FileType>>
  \o CRLF \o CRLF \o content \o CRLF \o <<"-", "-", "B", "-", "-">> \o CRLF

startsWith(t, p) == Len(t) >= Len(p) /\ SubSeq(t, 1, Len(p)) = p
endsWith(t, p) == Len(t) >= Len(p) /\ SubSeq(t, Len(t) - Len(p) + 1, Len(t)) = p
dropLast(t, n) == SubSeq(t, 1, Len(t) - n)

\* t.indexOf(p), counted from 1; 0 when p does not occur
indexOf(t, p) ==
  LET at == {i \in 1 .. Len(t) - Len(p) + 1 : SubSeq(t, i, i + Len(p) - 1) = p}
  IN IF at = {} THEN 0 ELSE Min(at)

\* t.split(d)
RECURSIVE split(_, _)
split(t, d) ==
  LET i == indexOf(t, d)
  IN IF i = 0 THEN <<t>>
     ELSE <<SubSeq(t, 1, i - 1)>> \o split(SubSeq(t, i + Len(d), Len(t)), d)

\* t.trim()
RECURSIVE trim(_)
trim(t) ==
  IF t # <<>> /\ Head(t) \in {CR, LF} THEN trim(Tail(t))
  ELSE IF t # <<>> /\ t[Len(t)] \in {CR, LF} THEN trim(dropLast(t, 1))
  ELSE t

\* lines 76-84: the three tests that cut the end of a part's body
stripEnd(body) ==
  LET b1 == IF endsWith(body, CRLF) THEN dropLast(body, 2) ELSE body
      b2 == IF endsWith(b1, <<"-", "-">>) THEN dropLast(b1, 2) ELSE b1
  IN IF endsWith(b2, CRLF) THEN dropLast(b2, 2) ELSE b2

\* lines 67-95: one part of the split text
parsePart(part, result) ==
  IF part = <<>> \/ trim(part) = <<"-", "-">> \/ startsWith(part, <<"-", "-">>)
  THEN result
  ELSE LET headerEndIdx == indexOf(part, CRLF \o CRLF)
           headers == SubSeq(part, 1, headerEndIdx - 1)
           body == stripEnd(SubSeq(part, headerEndIdx + 4, Len(part)))
           files == {i \in DOMAIN headers : headers[i] \in Filenames}
       IN IF headerEndIdx = 0 THEN result
          ELSE IF \E i \in DOMAIN headers : headers[i] = TokenHeader
          THEN [result EXCEPT !.token = trim(body)]
          ELSE IF files # {}
          THEN [result EXCEPT !.filename = headers[Min(files)],
                              !.fileContent = body]
          ELSE result

RECURSIVE parseParts(_, _)
parseParts(parts, result) ==
  IF parts = <<>> THEN result
  ELSE parseParts(Tail(parts), parsePart(Head(parts), result))

\* parseMultipartFormData(buffer, boundary), lines 56-98
parseMultipartFormData(text) ==
  parseParts(split(text, <<"-", "-", "B">>),
             [parsed |-> TRUE, token |-> <<>>, filename |-> NoFile,
              fileContent |-> <<>>])

\* a stored file is put into the body of an upload
BuildBody(name, content) ==
  /\ parseIn = NoInput
  /\ parseIn' = [filename |-> name, content |-> content,
                 body |-> printBody("T1", name, content)]
  /\ UNCHANGED <<storeVars, relayVars, capVars, reqVars, crashed, dashVars,
                 watchVars, parseOut>>

\* the relay parses the body of the upload
ParseBody ==
  /\ parseIn # NoInput /\ parseOut = NoParse
  /\ parseOut' = parseMultipartFormData(parseIn.body)
  /\ UNCHANGED <<storeVars, relayVars, capVars, reqVars, crashed, dashVars,
                 watchVars, parseIn>>

\* ------------------------------------------------------------------- Init
\* The printers table holds rows 1..k, created in id order.
PrinterTables ==
  {t \in [PrinterIds -> [present : BOOLEAN, ip : IPs \cup {NoIp},
                         token : {NoTok}, isConnected : {FALSE}]] :
     \A i \in PrinterIds :
        /\ (t[i].present <=> t[i].ip # NoIp)
        /\ (t[i].present /\ i > 1 => t[i - 1].present)}

\* The state after process start-up with the relay-target setting present:
\* initializeLubanProxy has started the relay (lines 293-313).
InitFrom(tables, files, dir) ==
  /\ printers \in tables
  /\ uploadedFiles = files
  /\ setting = "ipA"
  /\ proxyServer = 1
  /\ targetPrinterIp = "ipA"
  /\ isEnabled = TRUE
  /\ lastCapturedToken = NoTok
  /\ servers = <<"listening">>
  /\ waiters = <<>>
  /\ portTaken = FALSE
  /\ captureLog = <<>>
  /\ tokenWrites = <<>>
  /\ req = [r \in ReqIds |-> NoReq]
  /\ pc = [r \in ReqIds |-> "idle"]
  /\ loc = [r \in ReqIds |-> 0]
  /\ fwd = [r \in ReqIds |-> <<>>]
  /\ up = [r \in ReqIds |-> NoResp]
  /\ out = [r \in ReqIds |-> NoResp]
  /\ conn = [r \in ReqIds |-> 0]
  /\ calls = [c \in CallIds |-> NoCall]
  /\ crashed = FALSE
  /\ prefs = <<>>
  /\ printerSeq = Cardinality({i \in PrinterIds : printers[i].present})
  /\ watcher = dir
  /\ processedFiles = {}
  /\ parseIn = NoInput
  /\ parseOut = NoParse

\* no watch folder is configured
InitWith(tables) == InitFrom(tables, <<>>, NoDir)

Init == InitWith(PrinterTables)

\* one printer stored per address, in id order
OnePerAddress ==
  {t \in PrinterTables :
     /\ t[1].ip = "ipA"
     /\ t[2].ip = "ipB"
     /\ \A i \in PrinterIds : i > 2 => ~t[i].present}

InitLife == InitWith(OnePerAddress)

\* every request the slicer can send, one relay request at a time
Next ==
  \/ \E r \in 1 .. MaxFull, q \in Requests : RequestEnd(r, q)
  \/ \E r \in ReqIds, ok \in BOOLEAN : TokenLookup(r, ok)
  \/ \E r \in ReqIds, ok \in BOOLEAN : TokenWrite(r, ok)
  \/ \E r \in ReqIds, ok \in BOOLEAN : FileLookup(r, ok)
  \/ \E r \in ReqIds, ok \in BOOLEAN : FileCheck(r, ok)
  \/ \E r \in ReqIds, ok \in BOOLEAN : FileInsert(r, ok)
  \/ \E r \in ReqIds, resp \in PrinterResponses : ProxyResponse(r, resp)
  \/ \E r \in ReqIds : ProxyResponseEnd(r)
  \/ \E r \in ReqIds : ProxyError(r)
  \/ \E r \in ReqIds : ProxyTimeout(r)
  \/ \E r \in ReqIds : ProxyErrorAfterDestroy(r)

Spec == Init /\ [][Next]_vars

\* --------------------------------------------- other specifications
\* connect requests that carry a token, several in flight together
TokenRequests == {q \in ConnectRequests : q.urlTok = NoTok
                                          /\ q.body.tok \in {"T1", "T%31", "T2"}}
\* uploads of a file without a token field, several in flight together
FileRequests == {q \in UploadRequests : q.urlTok = NoTok
                                         /\ q.ctype = "multipart" /\ q.body.tok = NoTok
                                         /\ q.body.file # NoFile}
OkResponse == [status |-> 200, headers |-> "json", body |-> "ok"]

NextToken ==
  \/ \E r \in 1 .. MaxReq, q \in TokenRequests : RequestEnd(r, q)
  \/ \E r \in ReqIds, ok \in BOOLEAN : TokenLookup(r, ok)
  \/ \E r \in ReqIds, ok \in BOOLEAN : TokenWrite(r, ok)
  \/ \E r \in ReqIds : ProxyResponse(r, OkResponse)
  \/ \E r \in ReqIds : ProxyResponseEnd(r)

SpecToken == Init /\ [][NextToken]_vars

NextUpload ==
  \/ \E r \in 1 .. MaxReq, q \in FileRequests : RequestEnd(r, q)
  \/ \E r \in ReqIds, ok \in BOOLEAN : FileLookup(r, ok)
  \/ \E r \in ReqIds, ok \in BOOLEAN : FileCheck(r, ok)
  \/ \E r \in ReqIds, ok \in BOOLEAN : FileInsert(r, ok)
  \/ \E r \in ReqIds : ProxyResponse(r, OkResponse)
  \/ \E r \in ReqIds : ProxyResponseEnd(r)

SpecUpload == Init /\ [][NextUpload]_vars

\* requests that carry nothing to capture, several in flight together, with
\* every answer and failure of the leg to the printer
ForwardRequests ==
  {q \in StatusRequests : q.urlTok = NoTok} \cup
  {q \in ConnectRequests : q.urlTok = NoTok /\ q.body.tok = NoTok} \cup
  {q \in UploadRequests : q.urlTok = NoTok
                            /\ q.ctype = "multipart-noboundary" /\ q.body.tok = NoTok
                            /\ q.body.file = "a.gcode"}

NextForward ==
  \/ \E r \in 1 .. MaxReq, q \in ForwardRequests : RequestEnd(r, q)
  \/ \E r \in ReqIds, resp \in PrinterResponses : ProxyResponse(r, resp)
  \/ \E r \in ReqIds : ProxyResponseEnd(r)
  \/ \E r \in ReqIds : ProxyError(r)
  \/ \E r \in ReqIds : ProxyTimeout(r)
  \/ \E r \in ReqIds : ProxyErrorAfterDestroy(r)

SpecForward == InitLife /\ [][NextForward]_vars

\* every request shape, the printer answering, storage calls succeeding or
\* failing: the capture part of the handler
NextCapture ==
  \/ \E r \in 1 .. MaxFull, q \in Requests : RequestEnd(r, q)
  \/ \E r \in ReqIds, ok \in BOOLEAN : TokenLookup(r, ok)
  \/ \E r \in ReqIds, ok \in BOOLEAN : TokenWrite(r, ok)
  \/ \E r \in ReqIds, ok \in BOOLEAN : FileLookup(r, ok)
  \/ \E r \in ReqIds, ok \in BOOLEAN : FileCheck(r, ok)
  \/ \E r \in ReqIds, ok \in BOOLEAN : FileInsert(r, ok)
  \/ \E r \in ReqIds : ProxyResponse(r, OkResponse)
  \/ \E r \in ReqIds : ProxyResponseEnd(r)

SpecCapture == InitLife /\ [][NextCapture]_vars

\* the relay target is unreachable: no answer ever comes from the printer;
\* the connection attempt fails, or the 120 s timer of the outbound socket
\* (line 204) fires.  The timer of a waiting request does fire, and so does
\* the 'error' event that follows destroy().
NextUnreachable ==
  \/ \E r \in 1 .. MaxReq, q \in ForwardRequests \cup TokenRequests : RequestEnd(r, q)
  \/ \E r \in ReqIds, ok \in BOOLEAN : TokenLookup(r, ok)
  \/ \E r \in ReqIds, ok \in BOOLEAN : TokenWrite(r, ok)
  \/ \E r \in ReqIds : ProxyError(r)
  \/ \E r \in ReqIds : ProxyTimeout(r)
  \/ \E r \in ReqIds : ProxyErrorAfterDestroy(r)

SpecUnreachable ==
  /\ InitLife
  /\ [][NextUnreachable]_vars
  /\ \A r \in ReqIds : WF_vars(ProxyTimeout(r))
  /\ \A r \in ReqIds : WF_vars(ProxyErrorAfterDestroy(r))

\* one connect request shape, the relay being reconfigured meanwhile; the
\* storage calls succeed
LifeRequests == {q \in ConnectRequests : q.urlTok = NoTok /\ q.body.tok = "T1"}

NextLife ==
  \/ \E c \in CallIds, ip \in IPs : PutStart(c, ip)
  \/ \E c \in CallIds : PutDisable(c, TRUE)
  \/ \E c \in CallIds : PutStartSave(c, TRUE)
  \/ \E r \in ReqIds : ConnClose(r)
  \/ PortTake
  \/ PortRelease
  \/ \E r \in 1 .. MaxReq, q \in LifeRequests : RequestEnd(r, q)
  \/ \E r \in ReqIds : TokenLookup(r, TRUE)
  \/ \E r \in ReqIds : TokenWrite(r, TRUE)
  \/ \E r \in ReqIds : ProxyResponse(r, OkResponse)
  \/ \E r \in ReqIds : ProxyResponseEnd(r)

SpecLife == InitLife /\ [][NextLife]_vars

\* the relay capturing a token while the routes of the printers are called
NextRoutes ==
  \/ \E c \in CallIds, kind \in RouteKinds, id \in PrinterIds, ok \in BOOLEAN :
        RouteBegin(c, kind, id, ok)
  \/ \E c \in CallIds, res \in FetchResults : RouteFetched(c, res)
  \/ \E c \in CallIds, ok \in BOOLEAN : RouteUpdate(c, ok)
  \/ \E c \in CallIds, id \in PrinterIds, tok \in Tokens \cup {NoTok}, ok \in BOOLEAN :
        SaveToken(c, id, tok, ok)
  \/ \E r \in 1 .. MaxFull, q \in LifeRequests : RequestEnd(r, q)
  \/ \E r \in ReqIds, ok \in BOOLEAN : TokenLookup(r, ok)
  \/ \E r \in ReqIds, ok \in BOOLEAN : TokenWrite(r, ok)
  \/ \E r \in ReqIds : ProxyResponse(r, OkResponse)
  \/ \E r \in ReqIds : ProxyResponseEnd(r)

SpecRoutes == Init /\ [][NextRoutes]_vars


\* one printer stored, at the relay's target address
OnePrinter ==
  {t \in PrinterTables : t[1].ip = "ipA" /\ \A i \in PrinterIds : i > 1 => ~t[i].present}

InitFiles == InitWith(OnePrinter)

\* printers created and deleted while files come in by every path
NextFiles ==
  \/ \E c \in CallIds : CreatePrinter(c, "ipB", TRUE)
  \/ \E c \in CallIds, id \in PrinterIds, ok \in BOOLEAN : DeletePrinterBegin(c, id, ok)
  \/ \E c \in CallIds, ok \in BOOLEAN : DeletePrinterEnd(c, ok)
  \/ \E c \in CallIds, kind \in IngestKinds, id \in PrinterIds :
        IngestBegin(c, kind, id, "a.gcode", TRUE)
  \/ \E c \in CallIds : StartWatcher(c, "dirA", TRUE)
  \/ \E c \in CallIds : WatchList(c, TRUE)
  \/ \E c \in CallIds : IngestCheck(c, TRUE)
  \/ \E c \in CallIds, ok \in BOOLEAN : IngestAdd(c, ok)
  \/ \E r \in 1 .. MaxFull, q \in FileRequests : q.body.file = "b.gcode" /\ RequestEnd(r, q)
  \/ \E r \in ReqIds : FileLookup(r, TRUE)
  \/ \E r \in ReqIds : FileCheck(r, TRUE)
  \/ \E r \in ReqIds, ok \in BOOLEAN : FileInsert(r, ok)

SpecFiles == InitFiles /\ [][NextFiles]_vars

\* preference saves of several callers, the storage calls succeeding
NextPrefs ==
  \/ \E c \in CallIds, id \in PrinterIds, mods \in Modules : PrefsBegin(c, id, mods, TRUE)
  \/ \E c \in CallIds : PrefsSelect(c, TRUE)
  \/ \E c \in CallIds : PrefsWrite(c, TRUE)

SpecPrefs == InitLife /\ [][NextPrefs]_vars

\* the printers of OnePerAddress after each was connected: token stored,
\* connected flag set (connect route, lines 124-128)
ConnectedTables ==
  {[i \in PrinterIds |->
      IF t[i].present THEN [t[i] EXCEPT !.token = "T1", !.isConnected = TRUE]
      ELSE t[i]] : t \in OnePerAddress}

InitPoll == InitWith(ConnectedTables)

\* status polls beside the other routes of a printer; the printer answers
\* or the call to it fails, the updates of the row succeed or fail
NextPoll ==
  \/ \E c \in CallIds, kind \in RouteKinds, id \in PrinterIds :
        RouteBegin(c, kind, id, TRUE)
  \/ \E c \in CallIds, res \in {"throw", "json", "T2"} : RouteFetched(c, res)
  \/ \E c \in CallIds, ok \in BOOLEAN : RouteUpdate(c, ok)

SpecPoll == InitPoll /\ [][NextPoll]_vars

\* The state after start-up with a watch folder saved: initializeWatcher
\* has started the watcher on it (storage.ts 207-221), the folder was empty
InitWatch == InitFrom(OnePrinter, <<>>, "dirA")

\* no run of processNewFile started by an event is past its timer
quiet ==
  \A k \in CallIds : calls[k].kind = "watch-folder" => calls[k].pc \in {"timer", "done"}

\* directory events for one file, the watcher stopped and restarted; the
\* watcher is stopped or restarted only while no run started by an event
\* is awaiting storage
NextWatch ==
  \/ \E c \in CallIds, dir \in Folders, present \in BOOLEAN :
        quiet /\ StartWatcher(c, dir, present)
  \/ quiet /\ StopWatcher
  \/ \E c \in CallIds : WatchEvent(c, "a.gcode")
  \/ \E c \in CallIds : WatchRun(c)
  \/ \E c \in CallIds, ok \in BOOLEAN : WatchList(c, ok)
  \/ \E c \in CallIds, ok \in BOOLEAN : IngestCheck(c, ok)
  \/ \E c \in CallIds, ok \in BOOLEAN : IngestAdd(c, ok)

SpecWatch == InitWatch /\ [][NextWatch]_vars

\* the multipart parser applied to the upload body of every file content
\* of up to MaxLen characters
NextParse ==
  \/ \E name \in Filenames, content \in Contents : BuildBody(name, content)
  \/ ParseBody

SpecParse == InitLife /\ [][NextParse]_vars

\* the printers of OnePerAddress, the first one connected (token stored),
\* the others never connected
MixedTables ==
  {[i \in PrinterIds |->
      IF i = 1 THEN [t[i] EXCEPT !.token = "T1", !.isConnected = TRUE] ELSE t[i]] :
   t \in OnePerAddress}

\* each of the first two printers owns one manually uploaded file
TwoFiles ==
  <<[printerId |-> 1, filename |-> "a.gcode", source |-> "manual", by |-> 0],
    [printerId |-> 2, filename |-> "b.gcode", source |-> "manual", by |-> 0]>>

InitCommand == InitFrom(MixedTables, TwoFiles, NoDir)

\* the status, jog, home and file-listing routes of printers with and
\* without a stored token
NextCommand ==
  \/ \E c \in CallIds, id \in PrinterIds, ok \in BOOLEAN :
        RouteBegin(c, "status", id, ok)
  \/ \E c \in CallIds, res \in {"throw", "json"} : RouteFetched(c, res)
  \/ \E c \in CallIds, ok \in BOOLEAN : RouteUpdate(c, ok)
  \/ \E c \in CallIds, kind \in CommandKinds, id \in PrinterIds, ok \in BOOLEAN :
        CommandBegin(c, kind, id, 1, ok)
  \/ \E c \in CallIds, ok \in BOOLEAN, content \in BOOLEAN : PrintFile(c, ok, content)
  \/ \E c \in CallIds, ok \in BOOLEAN : CommandAnswered(c, ok)

SpecCommand == InitCommand /\ [][NextCommand]_vars

\* the print and delete-file routes, for every printer and every file id
NextOwn ==
  \/ \E c \in CallIds, id \in PrinterIds, f \in 1 .. Len(uploadedFiles) + 1,
         ok \in BOOLEAN : CommandBegin(c, "print", id, f, ok)
  \/ \E c \in CallIds, ok \in BOOLEAN, content \in BOOLEAN : PrintFile(c, ok, content)
  \/ \E c \in CallIds, ok \in BOOLEAN : CommandAnswered(c, ok)
  \/ \E c \in CallIds, id \in PrinterIds, f \in 1 .. Len(uploadedFiles) + 1,
         ok \in BOOLEAN : DeleteFileBegin(c, id, f, ok)
  \/ \E c \in CallIds, ok \in BOOLEAN : DeleteFileEnd(c, ok)

SpecOwn == InitCommand /\ [][NextOwn]_vars

\* ------------------------------------------------------------ properties
\* the 'end' listener of request r has run to its end
Finished(r) ==
  pc[r] \notin {"idle", "tokList", "tokWrite", "fileList", "fileExist", "fileAdd"}
\* the token part of the handler of r is over
TokenPartOver(r) == pc[r] \notin {"idle", "thrown", "tokList", "tokWrite"}
tokenOf(r) == capturedToken(req[r]).tok
loggedBy(r) == {i \in DOMAIN captureLog : captureLog[i].by = r}
writtenBy(r) == {i \in DOMAIN tokenWrites : tokenWrites[i].by = r}

\* C1: every request whose body was received is forwarded to the printer
\* exactly once, with its method, path and body, whatever the capture did.
C1_ForwardedOnce ==
  \A r \in ReqIds :
     /\ Len(fwd[r]) <= 1
     /\ Finished(r) =>
          /\ Len(fwd[r]) = 1
          /\ fwd[r][1].method = req[r].method
          /\ fwd[r][1].path = req[r].path
          /\ fwd[r][1].urlTok = req[r].urlTok
          /\ fwd[r][1].body = req[r].body

\* C2: when the printer answered a forwarded request, the status, headers
\* and body written to the caller are the printer's.
C2_PassThrough ==
  \A r \in ReqIds :
     /\ pc[r] = "piping" => /\ out[r].status = up[r].status
                            /\ out[r].headers = up[r].headers
     /\ pc[r] = "done" /\ up[r] # NoResp => out[r] = up[r]

C2_Witness ==
  \E r \in ReqIds : pc[r] = "done" /\ up[r].status = 401 /\ out[r].body = "ok"

\* C3: handling a request that carries token T leaves the captured-token
\* state equal to T; a request carrying the token that is already the
\* captured one adds no capture log line and starts no storage write, so
\* the log never holds the same token twice in a row and no request is
\* written more than once, also when requests are in flight together.
C3_Inv ==
  /\ \A i \in 1 .. Len(captureLog) - 1 :
        captureLog[i].token # captureLog[i + 1].token
  /\ captureLog # <<>> => lastCapturedToken = captureLog[Len(captureLog)].token
  /\ Len(tokenWrites) <= Len(captureLog)
  /\ \A r \in ReqIds : /\ Cardinality(writtenBy(r)) <= Cardinality(loggedBy(r))
                       /\ Cardinality(loggedBy(r)) <= 1

C3_Step ==
  \A r \in ReqIds :
     pc[r] = "idle" /\ pc'[r] \notin {"idle", "thrown"}
       /\ capturedToken(req'[r]).tok # NoTok
     => /\ lastCapturedToken' = capturedToken(req'[r]).tok
        /\ lastCapturedToken = capturedToken(req'[r]).tok
             => /\ captureLog' = captureLog
                /\ pc'[r] \notin {"tokList", "tokWrite"}

C3_CaptureOnce == [](C3_Inv) /\ [][C3_Step]_vars

\* two requests with the same token (spelled differently) in flight: the
\* first awaits its storage write, the second was already forwarded
C3_Witness ==
  \E r1, r2 \in ReqIds :
     /\ r1 # r2
     /\ pc[r1] = "tokWrite" /\ pc[r2] = "fwd"
     /\ tokenOf(r1) = tokenOf(r2)
     /\ req[r1] # req[r2]
     /\ Len(captureLog) = 1 /\ lastCapturedToken = tokenOf(r1)

C4_Step ==
  \A r \in ReqIds :
     /\ pc[r] = "idle" /\ pc'[r] = "tokList"
        => lastCapturedToken' = capturedToken(req'[r]).tok
     /\ pc[r] = "tokList" /\ pc'[r] = "tokWrite"
        => /\ printers[loc'[r]].present
           /\ printers[loc'[r]].ip = targetPrinterIp
           /\ \A p \in PrinterIds : p < loc'[r] => printers[p].ip # targetPrinterIp
     /\ pc[r] = "tokWrite" /\ pc'[r] # "tokWrite"
        => /\ \A p \in PrinterIds : p # loc[r] => printers'[p] = printers[p]
           /\ tokenWrites'[Len(tokenWrites')].ok /\ printers[loc[r]].present
                => printers'[loc[r]].token = tokenOf(r)

C5_OneRecordPerName ==
  \A p \in PrinterIds, f \in Filenames :
     Cardinality({k \in DOMAIN uploadedFiles :
                    uploadedFiles[k].printerId = p /\ uploadedFiles[k].filename = f}) <= 1

\* the relay has stored a token on printer p
relayStored(p) ==
  \E i \in DOMAIN tokenWrites : tokenWrites[i].printer = p /\ tokenWrites[i].ok

\* C6: once the relay has stored a captured token on a printer record, no
\* operation sets that record's token to an empty or null value.
C6_Step ==
  \A p \in PrinterIds :
     relayStored(p) /\ printers[p].token # NoTok => printers'[p].token # NoTok

C6_TokenNeverEmptied == [][C6_Step]_vars

\* C7: at most one relay listener is bound at any time, and the module's
\* listener handle (proxyServer) refers to it.
C7_OneListenerHeld ==
  /\ Cardinality({s \in DOMAIN servers : servers[s] = "listening"}) <= 1
  /\ \A s \in DOMAIN servers : servers[s] = "listening" => proxyServer = s

\* the address given to the most recent start of the relay: the target of
\* the start that created the newest server, or the start-up target
startedTarget ==
  IF \E c \in CallIds : calls[c].kind = "start" /\ calls[c].srv = Len(servers)
                        /\ calls[c].pc # "awaitClose"
  THEN calls[CHOOSE c \in CallIds : calls[c].kind = "start"
                 /\ calls[c].srv = Len(servers) /\ calls[c].pc # "awaitClose"].ip
  ELSE "ipA"

\* C8: every request forwarded after the relay was restarted goes to the
\* address of the latest start, never to an earlier target, whichever
\* listener accepted it and whenever it was accepted.
C8_Step ==
  \A r \in ReqIds :
     Len(fwd'[r]) > Len(fwd[r])
     => fwd'[r][Len(fwd'[r])].target = startedTarget

C8_ForwardToCurrentTarget == [][C8_Step]_vars

\* a request accepted by the start-up listener (target ipA) was forwarded to
\* ipB after a restart
C8_Witness ==
  \E r \in ReqIds :
     /\ conn[r] = -1
     /\ Len(servers) > 1 /\ targetPrinterIp = "ipB"
     /\ Len(fwd[r]) = 1 /\ fwd[r][1].target = "ipB"

\* C9: a start that reports failure leaves the relay stopped: no listener
\* is bound in the process and the status is not enabled.
C9_Step ==
  \A c \in CallIds :
     calls[c].status # 400 /\ calls'[c].status = 400 /\ calls'[c].kind = "start"
     => /\ listener' = 0
        /\ ~statusEnabled'

C9_FailedStartStopped == [][C9_Step]_vars

\* C10: a network failure on the leg to the printer gives the caller 502, a
\* timeout gives 504, and the request is sent to the printer once.
C10_FailureResponse ==
  \A r \in ReqIds :
     /\ pc[r] = "errored" => out[r].status = GatewayError
     /\ pc[r] \in {"destroyed", "destroyedErr"} => out[r].status = GatewayTimeout
     /\ Len(fwd[r]) <= 1

\* request r is a multipart request whose Content-Type has no boundary
noBoundary(r) == req[r] # NoReq /\ req[r].ctype = "multipart-noboundary"
savedBy(r) == {k \in DOMAIN uploadedFiles : uploadedFiles[k].by = r}

\* C11: a multipart request whose Content-Type has no boundary parameter is
\* forwarded with its body unchanged and causes no token capture, no token
\* write and no uploaded-file record.
C11_NoSideEffect ==
  \A r \in ReqIds :
     noBoundary(r) =>
        /\ loggedBy(r) = {} /\ writtenBy(r) = {} /\ savedBy(r) = {}
        /\ Finished(r) => Len(fwd[r]) = 1 /\ fwd[r][1].body = req[r].body

\* C11 amended: such a request whose URL carries no token parameter is
\* forwarded with its body unchanged, leaves the captured-token state as it
\* was, and causes no token write and no uploaded-file record.
C11_Inv ==
  \A r \in ReqIds :
     noBoundary(r) /\ req[r].urlTok = NoTok =>
        /\ loggedBy(r) = {} /\ writtenBy(r) = {} /\ savedBy(r) = {}
        /\ Finished(r) => Len(fwd[r]) = 1 /\ fwd[r][1].body = req[r].body

C11_Step ==
  \A r \in ReqIds :
     pc[r] = "idle" /\ noBoundary(r)' /\ req'[r].urlTok = NoTok
     => lastCapturedToken' = lastCapturedToken

C11_NoBodyCapture == [](C11_Inv) /\ [][C11_Step]_vars

\* a request without boundary that carries a token field and a file part
\* was answered, and nothing was captured
C11_Witness ==
  \E r \in ReqIds :
     /\ noBoundary(r) /\ pc[r] = "done"
     /\ req[r].urlTok = NoTok /\ req[r].body.tok = "T1" /\ req[r].body.file = "a.gcode"
     /\ fwd[r][1].body = req[r].body
     /\ captureLog = <<>> /\ uploadedFiles = <<>> /\ lastCapturedToken = NoTok

\* the token of a request by the order of the sources: the URL parameter,
\* then the URL-encoded form body, then the multipart token field
sourceToken(q) ==
  IF q.urlTok # NoTok THEN decodeURIComponent(q.urlTok)
  ELSE IF q.ctype = "form" /\ q.body.kind = "form" /\ q.body.tok # NoTok
  THEN decodeURIComponent(q.body.tok)
  ELSE IF q.ctype = "multipart" /\ q.body.kind = "multipart" THEN q.body.tok
  ELSE NoTok

\* C12: the token captured from a request is the URL parameter's if
\* present, otherwise the form body's, otherwise the multipart field's; the
\* later sources do not affect it (nor do they stand in for a first source
\* that cannot be decoded: nothing is captured then).
C12_Step ==
  \A r \in ReqIds :
     /\ pc[r] = "idle" /\ pc'[r] = "thrown" => UNCHANGED capVars
     /\ pc[r] = "idle" /\ pc'[r] \notin {"idle", "thrown"}
        => LET t == sourceToken(req'[r]) IN
          /\ t # NoTok => lastCapturedToken' = t
          /\ t = NoTok => lastCapturedToken' = lastCapturedToken
          /\ captureLog' # captureLog
               => captureLog'[Len(captureLog')] = [token |-> t, by |-> r]

C12_Inv ==
  \A i \in DOMAIN tokenWrites :
     tokenWrites[i].token = sourceToken(req[tokenWrites[i].by])

C12_SourcePriority == [](C12_Inv) /\ [][C12_Step]_vars

\* a request with one token in its URL and another in its form body: the
\* URL's was written to the printer
C12_Witness ==
  \E i \in DOMAIN tokenWrites :
     LET q == req[tokenWrites[i].by] IN
       /\ q.urlTok = "T2" /\ q.body.kind = "form" /\ q.body.tok = "T1"
       /\ tokenWrites[i].token = "T2" /\ tokenWrites[i].ok
       /\ lastCapturedToken = "T2"

\* no call of the relay's configuration route is in progress
configIdle == \A c \in CallIds : calls[c].pc \in {"idle", "done"}

\* C13: whenever no relay configuration request is in progress, the relay
\* is running exactly when the relay-target setting is present, and the
\* running relay's target equals the setting's value.
C13_SettingMatchesRelay ==
  configIdle =>
     /\ listener # 0 <=> setting # NoIp
     /\ listener # 0 => targetPrinterIp = setting

\* a storage call of the capture of request r is pending
capturePending(r) ==
  pc[r] \in {"tokList", "tokWrite", "fileList", "fileExist", "fileAdd"}

\* C14: the forward of a request does not wait for its token or file
\* storage calls: while a capture call of a request is pending, the request
\* has already been sent to the printer.
C14_ForwardNotBlocked ==
  \A r \in ReqIds : capturePending(r) => Len(fwd[r]) = 1

\* C15: a request forwarded to an unreachable target ends with a 502 or a
\* 504 response to the caller; it never stays unanswered forever.
C15_UnreachableAnswered ==
  \A r \in ReqIds :
     (pc[r] = "fwd") ~> (out[r] # NoResp /\ out[r].status \in {GatewayError, GatewayTimeout})

\* C16: every uploaded-file record refers to a printer record that exists,
\* whatever printers were created or deleted and by whichever path (relay,
\* slicer upload, manual upload, watch folder) the files came in; a printer
\* that owns files is not deleted from under them
C16_FilesHavePrinter ==
  \A k \in DOMAIN uploadedFiles :
     /\ uploadedFiles[k].printerId \in PrinterIds
     /\ printers[uploadedFiles[k].printerId].present

\* a delete of a printer that owns files has been refused, and a file came
\* in by a path other than the relay
C16_Witness ==
  /\ \E c \in CallIds :
        /\ calls[c].kind = "delete" /\ calls[c].pc = "done" /\ calls[c].status = 500
        /\ \E k \in DOMAIN uploadedFiles : uploadedFiles[k].printerId = calls[c].printer
  /\ \E k \in DOMAIN uploadedFiles : uploadedFiles[k].source # "luban"

\* C17: after any interleaving of preference saves of a printer, two
\* concurrent saves with no row stored included, the printer has at most
\* one preferences row and every save of an existing printer has ended
\* without an error
C17_OneRowNoError ==
  /\ \A i \in PrinterIds :
        Cardinality({k \in DOMAIN prefs : prefs[k].printerId = i}) <= 1
  /\ \A c \in CallIds :
        calls[c].kind = "prefs" /\ calls[c].pc = "done"
           /\ printers[calls[c].printer].present
        => calls[c].status = 200

\* C18: the step that ends a status poll of an existing printer.  A poll
\* that failed (the call to the printer threw) leaves the connected flag
\* false and the stored token as it was; a poll that succeeded leaves the
\* flag true, also after an earlier failed poll
C18_Step ==
  \A c \in CallIds :
     /\ calls[c].kind = "status"
     /\ calls[c].pc \in {"update", "updateFailed"}
     /\ calls'[c].pc = "done"
     /\ printers[calls[c].printer].present
     => /\ printers'[calls[c].printer].token = printers[calls[c].printer].token
        /\ printers'[calls[c].printer].isConnected = (calls[c].pc = "update")
        /\ calls'[c].status = IF calls[c].pc = "update" THEN 200 ELSE 500

C18_FailedPollClearsFlag == [][C18_Step]_vars

\* a poll of a printer failed and a later poll of it succeeded: the flag
\* is true again and the token is the one stored before
C18_Witness ==
  \E c, k \in CallIds :
     /\ c < k
     /\ calls[c].kind = "status" /\ calls[c].pc = "done" /\ calls[c].status = 500
     /\ calls[k].kind = "status" /\ calls[k].pc = "done" /\ calls[k].status = 200
     /\ calls[k].printer = calls[c].printer
     /\ printers[calls[c].printer].isConnected
     /\ printers[calls[c].printer].token = "T1"

\* C19 as stated: a file the relay captured from an upload request is
\* stored with the source tag "relay-captured"
C19_TagRelayCaptured ==
  \A k \in DOMAIN uploadedFiles :
     uploadedFiles[k].by # 0 => uploadedFiles[k].source = "relay-captured"

\* C19: a file the relay captured from an upload request is stored with
\* the source tag "luban"
C19_TagLuban ==
  \A k \in DOMAIN uploadedFiles :
     uploadedFiles[k].by # 0 => uploadedFiles[k].source = "luban"

\* the relay has stored a file beside a file of another path
C19_Witness ==
  /\ \E k \in DOMAIN uploadedFiles :
        /\ uploadedFiles[k].by # 0
        /\ pc[uploadedFiles[k].by] = "fwd"
        /\ uploadedFiles[k].filename = parsedMultipart(req[uploadedFiles[k].by].body).filename
  /\ \E k \in DOMAIN uploadedFiles : uploadedFiles[k].by = 0

\* C20: the response head of an inbound request is written at most once:
\* a handler that writes a head (the printer's response, the 502 of the
\* error handler, the 504 of the timeout handler) runs only while no head
\* has been written for the request
C20_Step ==
  \A r \in ReqIds :
     pc'[r] # pc[r] /\ pc'[r] \in {"piping", "errored", "destroyed", "destroyedErr"}
     => out[r] = NoResp

C20_HeadWrittenOnce == [][C20_Step]_vars

\* C21: once no token write is pending, a request that carried a token and
\* was forwarded to the relay's target has that token stored on the printer
\* record of that target, also when the relay was started with this target
\* after the same token had been captured for the previous one (the target
\* did not change while the request was handled)
C21_TokenOnNewTarget ==
  \A r \in ReqIds :
     /\ \A k \in ReqIds : req[k] # NoReq => TokenPartOver(k)
     /\ req[r] # NoReq
     /\ tokenOf(r) # NoTok
     /\ Len(fwd[r]) = 1
     /\ findPrinter(fwd[r][1].target) # 0
     /\ loc[r] # 0 => printers[loc[r]].ip = fwd[r][1].target
     => printers[findPrinter(fwd[r][1].target)].token = tokenOf(r)

\* C22: getLubanProxyStatus reports enabled exactly when a relay listener
\* of this process is bound to the port; stated for the states in which no
\* start or stop call is in progress
C22_StatusMatchesListener == configIdle => (statusEnabled <=> listener # 0)

\* C23: the file watcher imports a file of the watch folder at most once:
\* whatever scans and directory events there were for it, a printer has at
\* most one watch-folder record with its filename
C23_ImportedOnce ==
  \A i \in PrinterIds, name \in Filenames :
     Cardinality({k \in DOMAIN uploadedFiles :
                    /\ uploadedFiles[k].printerId = i
                    /\ uploadedFiles[k].filename = name
                    /\ uploadedFiles[k].source = "watch-folder"}) <= 1

\* C24: a file reported by a directory event is imported only while the
\* watcher that reported it is open: not after stopWatcher, and not after
\* the watcher was restarted on another folder
C24_Step ==
  \A c \in CallIds :
     /\ calls[c].kind = "watch-folder"
     /\ calls[c].pc = "add" /\ calls'[c].pc = "done"
     /\ Len(uploadedFiles') > Len(uploadedFiles)
     => watcher = calls[c].dir

C24_NoImportAfterStop == [][C24_Step]_vars

\* C25: for the body the print route builds for a stored file, the parser
\* returns the file's name and exactly its content, whatever the content
\* ends with
C25_ParseReturnsFile ==
  parseOut # NoParse =>
     /\ parseOut.filename = parseIn.filename
     /\ parseOut.fileContent = parseIn.content

\* C26: a file the relay captured is stored under the printer whose address
\* equals the relay target; only when there is no such printer is it stored
\* under the first printer listed; with no printer at all nothing is stored
\* and the request is forwarded all the same
C26_StoredUnderTarget ==
  \A r \in ReqIds :
     /\ \A k \in savedBy(r) :
          LET id == uploadedFiles[k].printerId
          IN IF \E i \in getAllPrinters : printers[i].ip = targetPrinterIp
             THEN printers[id].ip = targetPrinterIp
             ELSE \A i \in getAllPrinters : id <= i
     /\ req[r] # NoReq /\ capturesFile(req[r]) /\ getAllPrinters = {}
           /\ pc[r] \notin {"idle", "fileList", "thrown"}
        => savedBy(r) = {} /\ Len(fwd[r]) = 1

\* a file was stored under the printer of the relay target although
\* another printer is listed first
C26_Witness ==
  \E r \in ReqIds : \E k \in savedBy(r) :
     /\ uploadedFiles[k].printerId > 1
     /\ printers[uploadedFiles[k].printerId].ip = targetPrinterIp
     /\ printers[1].present /\ printers[1].ip # targetPrinterIp

\* the routes the claim C27 names
TokenRoutes == {"status"} \cup CommandKinds

\* the storage call of a route threw: the route answers 500, the status
\* route after its write of the connected flag
storageFailed(call) == call.status = 500 \/ call.pc = "updateFailed"

C27_Step ==
  \A c \in CallIds :
    LET id == calls'[c].printer
    IN (/\ calls'[c].kind \in TokenRoutes
        /\ printers[id].present
        /\ printers[id].token = NoTok)
       => /\ calls'[c].sent = <<>>
          /\ printers'[id] = printers[id]
          /\ (calls[c] = NoCall /\ ~storageFailed(calls'[c]))
               => (calls'[c].pc = "done" /\ calls'[c].status = 400)

C28_JogRestoresAbsolute ==
  \A c \in CallIds :
    (calls[c].kind = "jog" /\ calls[c].pc = "done" /\ Len(calls[c].sent) >= 2)
    => calls[c].sent = <<"G91", "G0", "G90">>

C29_Step ==
  \A c \in CallIds :
    calls'[c].kind = "disconnect" =>
      /\ calls'[c].threw =>
           /\ calls'[c].pc = "done" /\ calls'[c].status = 500
           /\ calls[c] # calls'[c] => printers' = printers
      /\ (calls[c].pc = "update" /\ calls'[c].pc = "done" /\ printers' # printers)
           => /\ ~calls[c].threw
              /\ printers'[calls[c].printer].token = NoTok
              /\ ~printers'[calls[c].printer].isConnected

\* C29: a disconnect call whose call of the printer failed ends with 500
\* and writes nothing; a disconnect call writes the record (token cleared,
\* flag false) only when its call of the printer did not fail, that is after
\* the printer accepted or when the route found no token and called nothing
C29_FailedDisconnectKeepsRecord == [][C29_Step]_vars

C29_Witness ==
  \E c, k \in CallIds :
    /\ calls[c].kind = "disconnect" /\ calls[c].pc = "done"
    /\ calls[c].threw /\ calls[c].status = 500
    /\ printers[calls[c].printer].token = "T1"
    /\ printers[calls[c].printer].isConnected
    /\ calls[k].kind = "disconnect" /\ calls[k].pc = "done"
    /\ calls[k].sent = <<"disconnect">> /\ calls[k].status = 200
    /\ printers[calls[k].printer].token = NoTok
    /\ ~printers[calls[k].printer].isConnected

\* file f is a stored file of a printer other than p
foreignFile(f, p) ==
  f \in DOMAIN uploadedFiles /\ uploadedFiles[f].printerId \notin {0, p}

\* call c is a print or delete-file call that names a file of another
\* printer and takes a step
foreignStep(c) ==
  /\ calls'[c].kind \in {"print", "deleteFile"}
  /\ foreignFile(calls'[c].fileId, calls'[c].printer)
  /\ calls'[c] # calls[c]

\* C30 as stated: for a file of another printer the print and delete-file
\* routes send nothing, remove no record and, with the storage answering,
\* end with 404
C30_ForeignFileNotFound ==
  [][\A c \in CallIds :
       foreignStep(c) =>
         /\ calls'[c].sent = <<>>
         /\ uploadedFiles' = uploadedFiles
         /\ (calls'[c].pc = "done" /\ ~storageFailed(calls'[c]))
              => calls'[c].status = 404]_vars

\* C30, amended: as above, but the print route ends with 400 when the
\* printer in the path has no stored token
C30_ForeignFileRefused ==
  [][\A c \in CallIds :
       foreignStep(c) =>
         /\ calls'[c].sent = <<>>
         /\ uploadedFiles' = uploadedFiles
         /\ (calls'[c].pc = "done" /\ ~storageFailed(calls'[c]))
              => calls'[c].status =
                   IF /\ calls'[c].kind = "print"
                      /\ printers[calls'[c].printer].present
                      /\ ~hasToken(calls'[c].printer)
                   THEN 400 ELSE 404]_vars

C30_Witness ==
  /\ calls[1].kind = "print" /\ calls[1].pc = "done" /\ calls[1].status = 404
  /\ hasToken(calls[1].printer)
  /\ calls[2].kind = "deleteFile" /\ calls[2].pc = "done" /\ calls[2].status = 404
  /\ \A c \in {1, 2} : /\ foreignFile(calls[c].fileId, calls[c].printer)
                         /\ printers[calls[c].printer].present
                         /\ calls[c].sent = <<>>
====
